---------------------------- MODULE Spec2Model ----------------------------
(***************************************************************************)
(* Model of the educado-web admin console.                                 *)
(*                                                                         *)
(* The section/activity editor (class CourseEditor, src/unnamed/part_001)  *)
(* is modelled as an event-driven state machine: user events run their     *)
(* handler to the first await, every fetch is a request in flight that the *)
(* REST backend answers at some later step, and the continuation of the    *)
(* handler runs when the answer is delivered.  Requests are answered and   *)
(* delivered in any order.                                                 *)
(*                                                                         *)
(* Abstractions: a section keeps id, courseId, order and its activities    *)
(* (title, video, thumbnail and duration are free text that is only passed *)
(* through); an activity keeps id, sectionId and type.  A string id        *)
(* `section-${Date.now()}` is the pair <<"section-", t>>, the empty string *)
(* is the empty tuple.                                                     *)
(***************************************************************************)
EXTENDS Integers, Sequences, FiniteSets, TLC

VARIABLES
    db,           \* REST backend: the stored sections (all courses), in insertion order
    now,          \* the reading of Date.now()
    courseId,     \* CourseEditor.courseId
    sections,     \* CourseEditor.sections
    rendered,     \* TRUE once render() has filled the container
    listDom,      \* the section cards inside #sections-list
    sectionForm,  \* the #section-editor element: its display, and the fields of
                  \* #section-form while it is displayed
    modals,       \* the activity modals appended to document.body, in document order
                  \* (with history: the snapshot when opened, requests sent since)
    tasks,        \* the async handlers suspended at an await, with their request
    opCount,      \* number of requests-issuing handlers started so far
    lastEvent,    \* history: what the last step was, when it was a click on a delete
                  \* button (ok: confirm()'s answer), a click on "Add Section", a
                  \* submit of the section form, a
                  \* click on a cancel button, or the end of a handler (ok: with a
                  \* render; not ok: after a failed request)
    generated,    \* history: the ids produced by `section-${Date.now()}`, with the reading
    collided,     \* history: the ids `section-${Date.now()}` produced more than once
    deleted,      \* history: the ids whose deleteSection(id) has reloaded and rendered
    reloads,      \* history: the number of loadSections() requests sent so far
    shownSeq,     \* history: which of them (1, 2, ...) set this.sections last
    calc,         \* a pure function of the program applied to an input
    courseDb,        \* REST backend: the stored courses, in insertion order
    viewMode,        \* CourseManager.viewMode
    courses,         \* CourseManager.courses
    filteredCourses, \* CourseManager.filteredCourses
    searchQuery,     \* CourseManager.searchQuery
    filterValue,     \* CourseManager.filterValue
    activeViews,     \* the .view elements whose class list holds "active"
    listView,        \* the content of the displayed list container: #courses-list
                     \* in grid mode, #courses-table-body in table mode
    detail,          \* #course-detail-content: its header, this.courseEditor, whether the
                     \* editor's container is in the document and filled, and the
                     \* editors whose handlers are bound to the buttons in it
    calls,           \* the api calls and loadCourse() calls in flight
    timers,          \* pending setTimeout(() => this.switchView('courses'), 1500)
    pageOps,         \* number of user events that started a call
    lastSelected,    \* history: the course of the last click on a course button,
                     \* its getCourse call and how that call ended
    pageEvent        \* history: what the last step of the page was

raceHist == <<reloads, shownSeq>>

editorVars == <<db, now, courseId, sections, rendered, listDom, sectionForm, modals,
                tasks, opCount, lastEvent, generated, collided, deleted, raceHist>>

pageVars == <<courseDb, viewMode, courses, filteredCourses, searchQuery, filterValue,
              activeViews, listView, detail, calls, timers, pageOps,
              lastSelected, pageEvent>>

vars == <<editorVars, calc, pageVars>>

-----------------------------------------------------------------------------
(* Bounds of the model *)

MaxOps == 2        \* handlers that issue a request, besides the initial load
MaxTime == 2       \* largest clock reading
MaxModals == 1     \* activity modals open at once
MaxLen == 3        \* longest list a pure function is applied to
MaxOrder == 3      \* largest `order` of a section in such a list
MaxCourses == 3    \* longest course list applyFilters is applied to
MaxOptions == 3    \* most options of a multiple-choice activity
MaxPageOps == 3    \* user events of the page that start a request

-----------------------------------------------------------------------------
(* Values *)

NoId == <<>>
NoCourse == "null"
Courses == {"c1"}
ActivityTypes == {"video_pause", "true_false", "text_reading", "multiple_choice"}
NoType == ""

(* What the user enters in the model: the order typed into #section-order    *)
(* and the type picked in #activity-type.                                    *)
TypedOrders == {1}
PickedTypes == {NoType, "multiple_choice"}

MkSectionId_Fixed(t) == <<"s", 1>>
MkSectionId(t) == <<"section-", t>>
MkActivityId(t) == <<"activity-", t>>

NoBody == [id |-> NoId, courseId |-> NoCourse, order |-> 0,
           sectionId |-> NoId, type |-> NoType]

NoEvent == [name |-> "other", id |-> NoId, ok |-> FALSE]
Event(n, i, b) == [name |-> n, id |-> i, ok |-> b]

BlankForm == [display |-> "none", id |-> NoId, order |-> 0]

(* The sections the backend holds when the page is opened: one section of   *)
(* course c1 with an activity, and one section of another course.  Their    *)
(* ids were not generated by this session.                                  *)
SeedActivity == [id |-> <<"a", 1>>, sectionId |-> <<"s", 1>>, type |-> "true_false"]
SeedSections ==
    << [id |-> <<"s", 1>>, courseId |-> "c1", order |-> 2, activities |-> <<SeedActivity>>],
       [id |-> <<"s", 2>>, courseId |-> "c2", order |-> 1, activities |-> <<>>] >>

-----------------------------------------------------------------------------
(* Helpers on sequences *)

IdsOf(s) == {s[i].id : i \in 1..Len(s)}

RECURSIVE Flatten(_)
Flatten(ss) == IF ss = <<>> THEN <<>> ELSE Head(ss) \o Flatten(Tail(ss))

(* Array.prototype.sort((a, b) => a.order - b.order): a stable sort *)
RECURSIVE InsertByOrder(_, _)
InsertByOrder(s, x) ==
    IF s = <<>> THEN <<x>>
    ELSE IF x.order < Head(s).order THEN <<x>> \o s
    ELSE <<Head(s)>> \o InsertByOrder(Tail(s), x)

RECURSIVE SortByOrder(_)
SortByOrder(s) ==
    IF s = <<>> THEN <<>>
    ELSE InsertByOrder(SortByOrder(SubSeq(s, 1, Len(s) - 1)), s[Len(s)])

-----------------------------------------------------------------------------
(* Requests in flight.  A task is one run of an async handler: `phase` is    *)
(* the await it is suspended at, the other fields are what its closure and   *)
(* its request hold.                                                         *)
(*   sent            the POST / PUT / DELETE is in flight                    *)
(*   answered        the backend has carried it out, the answer is not yet   *)
(*                   delivered to the handler                                *)
(*   reloadSent      the GET of loadSections() is in flight                  *)
(*   reloadAnswered  the backend has read the list for the GET, the answer   *)
(*                   is not yet delivered                                    *)
(*   loaded          loadSections() has returned, render() is the next       *)
(*                   statement of the handler                                *)
(* `arg` is the id the handler was called with (deleteSection), `mid` the    *)
(* activity modal its submit handler closed over, `data` the list the        *)
(* backend read for the GET and `resp` how that GET ended.                   *)

Task(tid, kind, phase, method, resource, target, course, body, mid) ==
    [tid |-> tid, kind |-> kind, phase |-> phase, method |-> method,
     resource |-> resource, target |-> target, course |-> course, body |-> body,
     arg |-> target, mid |-> mid, resp |-> "none", data |-> <<>>, seq |-> 0]

(* No handler is between `await this.loadSections()` and `this.render()`:    *)
(* that continuation runs as a microtask, before any other event or answer.  *)
Idle == \A t \in tasks : t.phase # "loaded"

-----------------------------------------------------------------------------
(* The REST backend (an external collaborator): standard CRUD semantics.     *)

AllActivityIds(d) == IdsOf(Flatten([i \in 1..Len(d) |-> d[i].activities]))

SectionsOfCourse(d, c) == SelectSeq(d, LAMBDA s : s.courseId = c)

(* Does the backend accept the request?  Create needs a fresh id, update and *)
(* delete need an existing one, an activity needs an existing section.       *)
Accepted(t, d) ==
    CASE t.method = "POST" /\ t.resource = "sections" ->
            t.body.id # NoId /\ t.body.id \notin IdsOf(d)
      [] t.method = "PUT" -> t.target \in IdsOf(d)
      [] t.method = "DELETE" -> t.target \in IdsOf(d)
      [] t.method = "POST" /\ t.resource = "activities" ->
            /\ t.body.sectionId \in IdsOf(d)
            /\ t.body.id \notin AllActivityIds(d)
            /\ t.body.type \in ActivityTypes
      [] OTHER -> FALSE

Applied(t, d) ==
    CASE t.method = "POST" /\ t.resource = "sections" ->
            Append(d, [id |-> t.body.id, courseId |-> t.body.courseId,
                       order |-> t.body.order, activities |-> <<>>])
      [] t.method = "PUT" ->
            [i \in 1..Len(d) |->
                IF d[i].id = t.target
                THEN [id |-> t.body.id, courseId |-> t.body.courseId,
                      order |-> t.body.order, activities |-> d[i].activities]
                ELSE d[i]]
      [] t.method = "DELETE" -> SelectSeq(d, LAMBDA s : s.id # t.target)
      [] t.method = "POST" /\ t.resource = "activities" ->
            [i \in 1..Len(d) |->
                IF d[i].id = t.body.sectionId
                THEN [d[i] EXCEPT !.activities =
                        Append(@, [id |-> t.body.id, sectionId |-> t.body.sectionId,
                                   type |-> t.body.type])]
                ELSE d[i]]
      [] OTHER -> d

Unchanged_client == UNCHANGED <<now, courseId, sections, rendered, listDom,
                                sectionForm, modals, opCount, generated, collided, deleted>>

(* The backend carries out a create / update / delete and answers 2xx. *)
ServeOk(t) ==
    /\ Idle
    /\ t.phase = "sent"
    /\ Accepted(t, db)
    /\ db' = Applied(t, db)
    /\ tasks' = (tasks \ {t}) \cup {[t EXCEPT !.phase = "answered"]}
    /\ lastEvent' = NoEvent
    /\ Unchanged_client
    /\ UNCHANGED <<calc, pageVars>>
    /\ UNCHANGED raceHist

(* GET /api/sections/course/{courseId}: the backend reads the list as it is  *)
(* stored at this moment.                                                    *)
ServeGet(t) ==
    /\ Idle
    /\ t.phase = "reloadSent"
    /\ tasks' = (tasks \ {t}) \cup
            {[t EXCEPT !.phase = "reloadAnswered", !.data = SectionsOfCourse(db, t.course)]}
    /\ lastEvent' = NoEvent
    /\ UNCHANGED db
    /\ Unchanged_client
    /\ UNCHANGED <<calc, pageVars>>
    /\ UNCHANGED raceHist

-----------------------------------------------------------------------------
(* CourseEditor *)

EditorInit ==
    /\ db = SeedSections
    /\ now = 1
    /\ courseId = NoCourse
    /\ sections = <<>>
    /\ rendered = FALSE
    /\ listDom = <<>>
    /\ sectionForm = BlankForm
    /\ modals = <<>>
    /\ tasks = {}
    /\ opCount = 0
    /\ lastEvent = NoEvent
    /\ generated = {}
    /\ collided = {}
    /\ deleted = {}
    /\ reloads = 0
    /\ shownSeq = 0

(* The course list of CourseManager: strings, courses, and applyFilters()   *)

(* Strings are sequences of characters. *)
Alphabet == {"a", "A", "b", "B"}

(* String.prototype.toLowerCase() *)
LowerOf == [c \in Alphabet |-> IF c = "A" THEN "a" ELSE IF c = "B" THEN "b" ELSE c]
toLowerCase(str) == [i \in 1..Len(str) |-> LowerOf[str[i]]]

(* String.prototype.includes(q) *)
includes(str, q) ==
    \E i \in 1..(Len(str) - Len(q) + 1) : SubSeq(str, i, i + Len(q) - 1) = q

(* String.prototype.localeCompare: the letters decide, case breaks ties      *)
(* (lower case first).                                                       *)
Primary == [c \in Alphabet |-> IF LowerOf[c] = "a" THEN 1 ELSE 2]
Tertiary == [c \in Alphabet |-> IF LowerOf[c] = c THEN 1 ELSE 2]

RECURSIVE CompareBy(_, _, _)
CompareBy(rank, x, y) ==
    IF x = <<>> /\ y = <<>> THEN 0
    ELSE IF x = <<>> THEN -1
    ELSE IF y = <<>> THEN 1
    ELSE IF rank[Head(x)] < rank[Head(y)] THEN -1
    ELSE IF rank[Head(x)] > rank[Head(y)] THEN 1
    ELSE CompareBy(rank, Tail(x), Tail(y))

localeCompare(x, y) ==
    IF CompareBy(Primary, x, y) # 0 THEN CompareBy(Primary, x, y)
    ELSE CompareBy(Tertiary, x, y)

(* createdAt as the API sends it: an ISO date string, here the day it names  *)
(* (day 0 is 1970-01-01), or nothing                                         *)
NoDate == <<>>
Iso(day) == <<"iso", day>>
DayMs == 86400000

(* a.createdAt ? new Date(a.createdAt).getTime() : 0 *)
GetTime(c) == IF c.createdAt = NoDate THEN 0 ELSE c.createdAt[2] * DayMs

Str(a, b) == <<a, b>>

(* The courses the lists are made of *)
Catalogue ==
    { [id |-> "k1", title |-> Str("a", "b"), category |-> <<"B">>,
       shortDescription |-> <<"a">>, createdAt |-> Iso(2)],
      [id |-> "k2", title |-> <<"B">>, category |-> <<"a">>,
       shortDescription |-> Str("b", "b"), createdAt |-> NoDate],
      [id |-> "k3", title |-> <<"a">>, category |-> <<"a">>,
       shortDescription |-> <<"A">>, createdAt |-> Iso(-1)],
      [id |-> "k4", title |-> <<"b">>, category |-> <<"b">>,
       shortDescription |-> <<"B">>, createdAt |-> Iso(1)] }

(* Course[] values: up to MaxCourses courses of the catalogue, each once *)
CourseLists ==
    UNION {{l \in [1..n -> Catalogue] : \A i, j \in 1..n : i # j => l[i] # l[j]}
           : n \in 0..MaxCourses}

(* what can be typed into #course-search, and the values of #filter-dropdown *)
TypedQueries == {<<>>, <<"a">>, <<"B">>, Str("a", "b")}
SortKeys == {"recent", "oldest", "name", "category", "rating"}

(* the filter of applyFilters(): search is this.searchQuery *)
Matches(course, search) ==
    \/ includes(toLowerCase(course.title), search)
    \/ includes(toLowerCase(course.category), search)
    \/ includes(toLowerCase(course.shortDescription), search)

(* a filter that also drops the first course that matches *)
SearchFilter_DropsFirst(list, search) ==
    IF search = <<>> THEN list
    ELSE IF SelectSeq(list, LAMBDA c : Matches(c, search)) = <<>> THEN <<>>
    ELSE Tail(SelectSeq(list, LAMBDA c : Matches(c, search)))

SearchFilter(list, search) ==
    IF search = <<>> THEN list
    ELSE SelectSeq(list, LAMBDA c : Matches(c, search))

(* the comparators of applyFilters() *)
CompareCourses(key, a, b) ==
    CASE key = "recent" -> GetTime(b) - GetTime(a)
      [] key = "oldest" -> GetTime(a) - GetTime(b)
      [] key = "name" -> localeCompare(a.title, b.title)
      [] key = "category" -> localeCompare(a.category, b.category)
      [] OTHER -> 0

(* Array.prototype.sort(comparator): a stable sort *)
RECURSIVE InsertCourse(_, _, _)
InsertCourse(key, list, x) ==
    IF list = <<>> THEN <<x>>
    ELSE IF CompareCourses(key, x, Head(list)) < 0 THEN <<x>> \o list
    ELSE <<Head(list)>> \o InsertCourse(key, Tail(list), x)

(* a sort that leaves the list as it is *)
SortCourses_AsIs(key, list) == list

RECURSIVE SortCourses(_, _)
SortCourses(key, list) ==
    IF list = <<>> THEN <<>>
    ELSE InsertCourse(key, SortCourses(key, SubSeq(list, 1, Len(list) - 1)),
                      list[Len(list)])

(* applyFilters(): the new this.filteredCourses *)
applyFilters(list, search, key) == SortCourses(key, SearchFilter(list, search))

-----------------------------------------------------------------------------
(* the courses the backend stores at first, and the one the form can submit *)
CourseOf(id) == CHOOSE c \in Catalogue : c.id = id
SeedCourses == <<CourseOf("k2"), CourseOf("k1")>>
NewCourses == {CourseOf("k3")}

(* what the user types into #course-search and picks in #filter-dropdown *)
PageQueries == {<<>>, Str("A", "b")}
PageSortKeys == {"recent", "name"}

(* CourseManager after `new CourseManager()`: init() has bound the listeners *)
(* and loadCourses() is awaiting api.getCourses(); the document is as the    *)
(* page delivers it, with the course list view active.                       *)
Loading == [state |-> "loading", ids |-> <<>>]
NoDetail == [header |-> "none", editor |-> 0, attached |-> FALSE, filled |-> FALSE,
             handlers |-> {}]
NoPageEvent == [name |-> "other", arg |-> "none"]
NoSelection == [id |-> "none", call |-> 0, state |-> "none"]
Call(n, kind, arg) == [n |-> n, kind |-> kind, arg |-> arg, phase |-> "sent", data |-> <<>>]

PageInit ==
    /\ courseDb = SeedCourses
    /\ viewMode = "grid"
    /\ courses = <<>>
    /\ filteredCourses = <<>>
    /\ searchQuery = <<>>
    /\ filterValue = "recent"
    /\ activeViews = {"courses-view"}
    /\ listView = Loading
    /\ detail = NoDetail
    /\ calls = {Call(1, "getCourses", "none")}
    /\ timers = 0
    /\ pageOps = 0
    /\ lastSelected = NoSelection
    /\ pageEvent = NoPageEvent

(* no pure function is being applied *)
NoCalc == [kind |-> "none", input |-> <<>>, done |-> FALSE, output |-> <<>>]

Init ==
    /\ EditorInit
    /\ PageInit
    /\ calc = NoCalc

(* a request for the sections of another course *)
GetRequest_OtherCourse(t, c) ==
    [t EXCEPT !.phase = "reloadSent", !.method = "GET", !.resource = "sections/course",
              !.target = NoId, !.course = "c2", !.body = NoBody, !.seq = reloads + 1]

(* The request of loadSections(); seq numbers the requests in the order they  *)
(* are sent                                                                  *)
GetRequest(t, c) ==
    [t EXCEPT !.phase = "reloadSent", !.method = "GET", !.resource = "sections/course",
              !.target = NoId, !.course = c, !.body = NoBody, !.seq = reloads + 1]

(* loadCourse(courseId): sets the course and starts loadSections() *)
loadCourse(c) ==
    /\ courseId = NoCourse
    /\ c \in Courses
    /\ courseId' = c
    /\ tasks' = {GetRequest(Task(0, "loadCourse", "reloadSent", "GET", "sections/course",
                                 NoId, c, NoBody, 0), c)}
    /\ lastEvent' = NoEvent
    /\ UNCHANGED <<db, now, sections, rendered, listDom, sectionForm, modals,
                   opCount, generated, collided, deleted>>
    /\ UNCHANGED <<calc, pageVars>>
    /\ reloads' = reloads + 1
    /\ UNCHANGED shownSeq

(* How a GET can end: a 2xx answer whose body is the list, a 2xx answer     *)
(* whose body is not an array, a non-success status, a transport failure.   *)
GetOutcomes == {"ok", "notarray", "status", "error"}

(* loadSections() that keeps the previous list when the GET fails *)
loadSections_KeepsOnFailure(t, r) ==
    /\ Idle
    /\ t.phase = "reloadAnswered"
    /\ r \in GetOutcomes
    /\ sections' = IF r = "ok" THEN t.data ELSE sections
    /\ tasks' = (tasks \ {t}) \cup {[t EXCEPT !.phase = "loaded", !.resp = r]}
    /\ lastEvent' = NoEvent
    /\ UNCHANGED <<db, now, courseId, rendered, listDom, sectionForm, modals,
                   opCount, generated, collided, deleted>>
    /\ UNCHANGED <<calc, pageVars>>
    /\ shownSeq' = t.seq
    /\ UNCHANGED reloads

(* loadSections() that adds the fetched list to this.sections instead of     *)
(* replacing it                                                              *)
loadSections_Appends(t, r) ==
    /\ Idle
    /\ t.phase = "reloadAnswered"
    /\ r \in GetOutcomes
    /\ sections' = IF r = "ok" THEN sections \o t.data ELSE <<>>
    /\ tasks' = (tasks \ {t}) \cup {[t EXCEPT !.phase = "loaded", !.resp = r]}
    /\ lastEvent' = NoEvent
    /\ UNCHANGED <<db, now, courseId, rendered, listDom, sectionForm, modals,
                   opCount, generated, collided, deleted>>
    /\ UNCHANGED <<calc, pageVars>>
    /\ shownSeq' = t.seq
    /\ UNCHANGED reloads

(* loadSections() after its awaits: the GET ended with outcome r *)
loadSections(t, r) ==
    /\ Idle
    /\ t.phase = "reloadAnswered"
    /\ r \in GetOutcomes
    /\ sections' = IF r = "ok" THEN t.data ELSE <<>>
    /\ tasks' = (tasks \ {t}) \cup {[t EXCEPT !.phase = "loaded", !.resp = r]}
    /\ lastEvent' = NoEvent
    /\ UNCHANGED <<db, now, courseId, rendered, listDom, sectionForm, modals,
                   opCount, generated, collided, deleted>>
    /\ UNCHANGED <<calc, pageVars>>
    /\ shownSeq' = t.seq
    /\ UNCHANGED reloads

Card(s) == [id |-> s.id, order |-> s.order, activities |-> s.activities]

(* a renderSections() that maps the array as it stands *)
renderSections_InArrayOrder(ss) ==
    IF Len(ss) = 0 THEN <<>>
    ELSE [i \in 1..Len(ss) |-> Card(ss[i])]

(* renderSections(): the cards of the sections sorted by order; the empty    *)
(* list stands for the "No sections yet" block.                              *)
renderSections(ss) ==
    IF Len(ss) = 0 THEN <<>>
    ELSE [i \in 1..Len(ss) |-> Card(SortByOrder(ss)[i])]

(* modal.remove() of the activity modal a handler closed over *)
RemoveModal(ms, mid) == SelectSeq(ms, LAMBDA m : m.mid # mid)

(* render(), the statement after `await this.loadSections()` in loadCourse,  *)
(* saveSection, saveActivity and deleteSection; the submit handler of the    *)
(* activity form then removes its modal.  sort() sorts this.sections in      *)
(* place; the container's innerHTML is replaced, so the section editor is    *)
(* hidden and blank again.                                                   *)
render(t) ==
    /\ t.phase = "loaded"
    /\ sections' = SortByOrder(sections)
    /\ listDom' = renderSections(sections)
    /\ rendered' = TRUE
    /\ sectionForm' = BlankForm
    /\ modals' = IF t.kind = "saveActivity" THEN RemoveModal(modals, t.mid) ELSE modals
    /\ tasks' = tasks \ {t}
    /\ lastEvent' = Event(t.kind, t.arg, TRUE)
    /\ deleted' = IF t.kind = "deleteSection" THEN deleted \cup {t.arg} ELSE deleted
    /\ UNCHANGED <<db, now, courseId, opCount, generated, collided>>
    /\ UNCHANGED <<calc, pageVars>>
    /\ UNCHANGED raceHist

-----------------------------------------------------------------------------
(* User events.  A handler is bound to every button render() or a show...    *)
(* method has put into the document; nothing in the code disables a button   *)
(* while a form is open.                                                     *)

FindSection(id) ==
    IF \E j \in 1..Len(sections) : sections[j].id = id
    THEN sections[CHOOSE j \in 1..Len(sections) :
                    /\ sections[j].id = id
                    /\ \A k \in 1..(j - 1) : sections[k].id # id]
    ELSE [id |-> NoId, courseId |-> NoCourse, order |-> 0, activities |-> <<>>]

(* a showSectionEditor() that numbers a new section after the last one *)
showSectionEditor_AfterLast(section) ==
    IF section.id # NoId
    THEN [display |-> "block", id |-> section.id, order |-> section.order]
    ELSE [display |-> "block", id |-> NoId,
          order |-> IF sections = <<>> THEN 1
                    ELSE 1 + CHOOSE o \in {sections[i].order : i \in 1..Len(sections)} :
                                 \A i \in 1..Len(sections) : sections[i].order <= o]

(* showSectionEditor(section?): the form as it stands after the call *)
showSectionEditor(section) ==
    IF section.id # NoId
    THEN [display |-> "block", id |-> section.id, order |-> section.order]
    ELSE [display |-> "block", id |-> NoId, order |-> Len(sections) + 1]

(* click on #add-section-btn *)
ClickAddSection ==
    /\ Idle
    /\ rendered
    /\ sectionForm' = showSectionEditor(FindSection(NoId))
    /\ lastEvent' = Event("addSection", NoId, TRUE)
    /\ UNCHANGED <<db, now, courseId, sections, rendered, listDom, modals, tasks,
                   opCount, generated, collided, deleted>>
    /\ UNCHANGED <<calc, pageVars>>
    /\ UNCHANGED raceHist

(* click on the .edit-section button of card i *)
ClickEditSection(i) ==
    /\ Idle
    /\ i \in 1..Len(listDom)
    /\ LET section == FindSection(listDom[i].id) IN
         sectionForm' = IF section.id # NoId THEN showSectionEditor(section)
                        ELSE sectionForm
    /\ lastEvent' = NoEvent
    /\ UNCHANGED <<db, now, courseId, sections, rendered, listDom, modals, tasks,
                   opCount, generated, collided, deleted>>
    /\ UNCHANGED <<calc, pageVars>>
    /\ UNCHANGED raceHist

(* the user types a number into #section-order of the open section form *)
TypeSectionOrder(o) ==
    /\ Idle
    /\ sectionForm.display = "block"
    /\ o \in TypedOrders
    /\ o # sectionForm.order
    /\ sectionForm' = [sectionForm EXCEPT !.order = o]
    /\ lastEvent' = NoEvent
    /\ UNCHANGED <<db, now, courseId, sections, rendered, listDom, modals, tasks,
                   opCount, generated, collided, deleted>>
    /\ UNCHANGED <<calc, pageVars>>
    /\ UNCHANGED raceHist

(* a cancel that empties the snapshot while hiding the form *)
CancelSection_Forgets ==
    /\ Idle
    /\ sectionForm.display = "block"
    /\ sectionForm' = BlankForm
    /\ sections' = <<>>
    /\ lastEvent' = Event("cancel", NoId, TRUE)
    /\ UNCHANGED <<db, now, courseId, rendered, listDom, modals, tasks,
                   opCount, generated, collided, deleted>>
    /\ UNCHANGED <<calc, pageVars>>
    /\ UNCHANGED raceHist

(* click on #cancel-section: editor.style.display = 'none'.  The fields of   *)
(* a hidden form are never read again (showSectionEditor() and render()      *)
(* replace the form before it is shown), so the hidden form is kept blank.   *)
CancelSection ==
    /\ Idle
    /\ sectionForm.display = "block"
    /\ sectionForm' = BlankForm
    /\ lastEvent' = Event("cancel", NoId, TRUE)
    /\ UNCHANGED <<db, now, courseId, sections, rendered, listDom, modals, tasks,
                   opCount, generated, collided, deleted>>
    /\ UNCHANGED <<calc, pageVars>>
    /\ UNCHANGED raceHist

(* history kept in the open activity modals: a POST / PUT / DELETE has been  *)
(* sent since the modal was opened                                           *)
Requested(ms) == [k \in 1..Len(ms) |-> [ms[k] EXCEPT !.requested = TRUE]]

(* a saveSection() that creates whatever the mode of the form *)
saveSection_AlwaysCreates ==
    /\ Idle
    /\ sectionForm.display = "block"
    /\ opCount < MaxOps
    /\ LET id == sectionForm.id
           data == [NoBody EXCEPT !.id = IF id # NoId THEN id ELSE MkSectionId(now),
                                  !.courseId = courseId,
                                  !.order = sectionForm.order]
       IN /\ tasks' = tasks \cup
                {Task(opCount + 1, "saveSection", "sent",
                      "POST", "sections", NoId,
                      NoCourse, data, 0)}
          /\ generated' = IF id # NoId THEN generated
                          ELSE generated \cup {[id |-> data.id, at |-> now]}
          /\ collided' = IF id = NoId /\ data.id \in {g.id : g \in generated}
                         THEN collided \cup {data.id} ELSE collided
    /\ opCount' = opCount + 1
    /\ modals' = Requested(modals)
    /\ lastEvent' = Event("submitSection", sectionForm.id, TRUE)
    /\ UNCHANGED <<db, now, courseId, sections, rendered, listDom, sectionForm, deleted>>
    /\ UNCHANGED <<calc, pageVars>>
    /\ UNCHANGED raceHist

(* saveSection() up to `await fetch(...)`, on submit of #section-form *)
saveSection ==
    /\ Idle
    /\ sectionForm.display = "block"
    /\ opCount < MaxOps
    /\ LET id == sectionForm.id
           data == [NoBody EXCEPT !.id = IF id # NoId THEN id ELSE MkSectionId(now),
                                  !.courseId = courseId,
                                  !.order = sectionForm.order]
       IN /\ tasks' = tasks \cup
                {Task(opCount + 1, "saveSection", "sent",
                      IF id # NoId THEN "PUT" ELSE "POST", "sections", id,
                      NoCourse, data, 0)}
          /\ generated' = IF id # NoId THEN generated
                          ELSE generated \cup {[id |-> data.id, at |-> now]}
          /\ collided' = IF id = NoId /\ data.id \in {g.id : g \in generated}
                         THEN collided \cup {data.id} ELSE collided
    /\ opCount' = opCount + 1
    /\ modals' = Requested(modals)
    /\ lastEvent' = Event("submitSection", sectionForm.id, TRUE)
    /\ UNCHANGED <<db, now, courseId, sections, rendered, listDom, sectionForm, deleted>>
    /\ UNCHANGED <<calc, pageVars>>
    /\ UNCHANGED raceHist

FreeMid ==
    CHOOSE m \in 1..(MaxModals + MaxOps + 1) :
        /\ m \notin {modals[k].mid : k \in 1..Len(modals)} \cup {t.mid : t \in tasks}
        /\ \A n \in 1..(m - 1) :
              n \in {modals[k].mid : k \in 1..Len(modals)} \cup {t.mid : t \in tasks}

(* showActivityEditor(sectionId), on click on the .add-activity button of    *)
(* card i.  getElementById('activity-type') is the select of the first       *)
(* activity modal of the document: that one gets the change listener.        *)
showActivityEditor(i) ==
    /\ Idle
    /\ i \in 1..Len(listDom)
    /\ Len(modals) < MaxModals
    /\ LET appended == Append(modals, [mid |-> FreeMid, sectionId |-> listDom[i].id,
                                       type |-> NoType, fields |-> NoType,
                                       listens |-> FALSE,
                                       snap |-> sections, requested |-> FALSE])
       IN modals' = [appended EXCEPT ![1].listens = TRUE]
    /\ lastEvent' = NoEvent
    /\ UNCHANGED <<db, now, courseId, sections, rendered, listDom, sectionForm, tasks,
                   opCount, generated, collided, deleted>>
    /\ UNCHANGED <<calc, pageVars>>
    /\ UNCHANGED raceHist

(* the user picks a type in the select of activity modal k; a select with    *)
(* the change listener runs updateActivityFields(type), which fills          *)
(* getElementById('activity-fields'), the fields of the first modal.         *)
updateActivityFields(k, type) ==
    /\ Idle
    /\ k \in 1..Len(modals)
    /\ type \in PickedTypes
    /\ type # modals[k].type
    /\ LET picked == [modals EXCEPT ![k].type = type]
       IN modals' = IF modals[k].listens THEN [picked EXCEPT ![1].fields = type]
                    ELSE picked
    /\ lastEvent' = NoEvent
    /\ UNCHANGED <<db, now, courseId, sections, rendered, listDom, sectionForm, tasks,
                   opCount, generated, collided, deleted>>
    /\ UNCHANGED <<calc, pageVars>>
    /\ UNCHANGED raceHist

(* click on #cancel-activity of modal k *)
CancelActivity(k) ==
    /\ Idle
    /\ k \in 1..Len(modals)
    /\ modals' = RemoveModal(modals, modals[k].mid)
    /\ lastEvent' = Event("cancel", NoId, TRUE)
    /\ UNCHANGED <<db, now, courseId, sections, rendered, listDom, sectionForm, tasks,
                   opCount, generated, collided, deleted>>
    /\ UNCHANGED <<calc, pageVars>>
    /\ UNCHANGED raceHist

(* saveActivity() up to `await fetch(...)`, on submit of the form of modal   *)
(* k (its select is `required`).  The values are read by getElementById,     *)
(* from the first modal; reading the field of a type whose fields are not    *)
(* in the document throws before any request is made.                        *)
saveActivity(k) ==
    /\ Idle
    /\ k \in 1..Len(modals)
    /\ modals[k].type # NoType
    /\ opCount < MaxOps
    /\ LET type == modals[1].type
           sectionId == modals[1].sectionId
           data == [NoBody EXCEPT !.id = MkActivityId(now), !.sectionId = sectionId,
                                  !.type = type]
           throws == type \in ActivityTypes /\ modals[1].fields # type
       IN /\ tasks' = IF throws THEN tasks
                      ELSE tasks \cup {Task(opCount + 1, "saveActivity", "sent", "POST",
                                            "activities", NoId, NoCourse, data,
                                            modals[k].mid)}
          /\ modals' = IF throws THEN modals ELSE Requested(modals)
    /\ opCount' = opCount + 1
    /\ lastEvent' = NoEvent
    /\ UNCHANGED <<db, now, courseId, sections, rendered, listDom, sectionForm,
                   generated, collided, deleted>>
    /\ UNCHANGED <<calc, pageVars>>
    /\ UNCHANGED raceHist

(* a delete click that sends the DELETE whatever confirm() returned *)
deleteSection_Unconfirmed(i, confirmed) ==
    /\ Idle
    /\ i \in 1..Len(listDom)
    /\ confirmed \in BOOLEAN
    /\ opCount < MaxOps
    /\ tasks' = IF TRUE
                THEN tasks \cup {Task(opCount + 1, "deleteSection", "sent", "DELETE",
                                      "sections", listDom[i].id, NoCourse, NoBody, 0)}
                ELSE tasks
    /\ opCount' = IF TRUE THEN opCount + 1 ELSE opCount
    /\ modals' = IF confirmed THEN Requested(modals) ELSE modals
    /\ lastEvent' = Event("deleteClick", listDom[i].id, confirmed)
    /\ UNCHANGED <<db, now, courseId, sections, rendered, listDom, sectionForm,
                   generated, collided, deleted>>
    /\ UNCHANGED <<calc, pageVars>>
    /\ UNCHANGED raceHist

(* click on the .delete-section button of card i: confirm(), and on "OK"     *)
(* deleteSection(id) up to `await fetch(...)`                                *)
deleteSection(i, confirmed) ==
    /\ Idle
    /\ i \in 1..Len(listDom)
    /\ confirmed \in BOOLEAN
    /\ confirmed => opCount < MaxOps
    /\ tasks' = IF confirmed
                THEN tasks \cup {Task(opCount + 1, "deleteSection", "sent", "DELETE",
                                      "sections", listDom[i].id, NoCourse, NoBody, 0)}
                ELSE tasks
    /\ opCount' = IF confirmed THEN opCount + 1 ELSE opCount
    /\ modals' = IF confirmed THEN Requested(modals) ELSE modals
    /\ lastEvent' = Event("deleteClick", listDom[i].id, confirmed)
    /\ UNCHANGED <<db, now, courseId, sections, rendered, listDom, sectionForm,
                   generated, collided, deleted>>
    /\ UNCHANGED <<calc, pageVars>>
    /\ UNCHANGED raceHist

(* a handler that renders after a successful request without reloading *)
FetchOk_NoReload(t) ==
    /\ Idle
    /\ t.phase = "answered"
    /\ tasks' = (tasks \ {t}) \cup {[t EXCEPT !.phase = "loaded", !.resp = "ok",
                                               !.data = sections]}
    /\ lastEvent' = NoEvent
    /\ UNCHANGED <<db, now, courseId, sections, rendered, listDom, sectionForm, modals,
                   opCount, generated, collided, deleted>>
    /\ UNCHANGED <<calc, pageVars>>
    /\ UNCHANGED raceHist

(* saveSection / saveActivity / deleteSection after `await fetch(...)` with  *)
(* response.ok: loadSections() is called and sends its GET.                  *)
FetchOk(t) ==
    /\ Idle
    /\ t.phase = "answered"
    /\ tasks' = (tasks \ {t}) \cup {GetRequest(t, courseId)}
    /\ lastEvent' = NoEvent
    /\ UNCHANGED <<db, now, courseId, sections, rendered, listDom, sectionForm, modals,
                   opCount, generated, collided, deleted>>
    /\ UNCHANGED <<calc, pageVars>>
    /\ reloads' = reloads + 1
    /\ UNCHANGED shownSeq

(* a handler that reloads whether or not its request succeeded *)
FetchFailed_Reloads(t, r) ==
    /\ Idle
    /\ r \in {"status", "error"}
    /\ t.phase = "sent"
    /\ tasks' = (tasks \ {t}) \cup {GetRequest(t, courseId)}
    /\ modals' = modals
    /\ lastEvent' = Event(t.kind, t.arg, FALSE)
    /\ UNCHANGED <<db, now, courseId, sections, rendered, listDom, sectionForm,
                   opCount, generated, collided, deleted>>
    /\ UNCHANGED <<calc, pageVars>>
    /\ reloads' = reloads + 1
    /\ UNCHANGED shownSeq

(* ... with a response that is not ok ("status": the backend refused the    *)
(* request), or with fetch rejected ("error", caught and logged: the request *)
(* never arrived): the handler returns; the submit handler of the activity   *)
(* form then removes its modal.  The stored sections are untouched.          *)
FetchFailed(t, r) ==
    /\ Idle
    /\ r \in {"status", "error"}
    /\ t.phase = "sent"
    /\ tasks' = tasks \ {t}
    /\ modals' = IF t.kind = "saveActivity" THEN RemoveModal(modals, t.mid) ELSE modals
    /\ lastEvent' = Event(t.kind, t.arg, FALSE)
    /\ UNCHANGED <<db, now, courseId, sections, rendered, listDom, sectionForm,
                   opCount, generated, collided, deleted>>
    /\ UNCHANGED <<calc, pageVars>>
    /\ UNCHANGED raceHist

(* Date.now() advances *)
Tick ==
    /\ Idle
    /\ now < MaxTime
    /\ now' = now + 1
    /\ lastEvent' = NoEvent
    /\ UNCHANGED <<db, courseId, sections, rendered, listDom, sectionForm, modals,
                   tasks, opCount, generated, collided, deleted>>
    /\ UNCHANGED <<calc, pageVars>>
    /\ UNCHANGED raceHist

Next ==
    \/ \E c \in Courses : loadCourse(c)
    \/ \E t \in tasks, r \in GetOutcomes : loadSections(t, r)
    \/ \E t \in tasks : render(t)
    \/ ClickAddSection
    \/ \E i \in 1..Len(listDom) : ClickEditSection(i)
    \/ \E o \in TypedOrders : TypeSectionOrder(o)
    \/ CancelSection
    \/ saveSection
    \/ \E i \in 1..Len(listDom) : showActivityEditor(i)
    \/ \E k \in 1..Len(modals), type \in PickedTypes :
            updateActivityFields(k, type)
    \/ \E k \in 1..Len(modals) : CancelActivity(k)
    \/ \E k \in 1..Len(modals) : saveActivity(k)
    \/ \E i \in 1..Len(listDom), confirmed \in BOOLEAN : deleteSection(i, confirmed)
    \/ \E t \in tasks : FetchOk(t)
    \/ \E t \in tasks, r \in {"status", "error"} : FetchFailed(t, r)
    \/ \E t \in tasks : ServeOk(t)
    \/ \E t \in tasks : ServeGet(t)
    \/ Tick

Spec == Init /\ [][Next]_vars

-----------------------------------------------------------------------------
(* The pure functions of the program, applied to inputs drawn from bounded   *)
(* sets: calc holds the function, its input and, once applied, its output.   *)

Input(k, x) == [kind |-> k, input |-> x, done |-> FALSE, output |-> <<>>]

(* this.sections of a CourseEditor: up to MaxLen sections in any array order *)
SectionLists ==
    UNION {{[i \in 1..n |-> [id |-> <<"s", i>>, courseId |-> "c1", order |-> f[i],
                              activities |-> <<>>]] : f \in [1..n -> 1..MaxOrder]}
           : n \in 0..MaxLen}

(* Activity.options absent, and Activity.correctAnswer: a number, a boolean  *)
(* or null / absent                                                          *)
NoOptions == [present |-> FALSE, items |-> <<>>]
Options(n) == [present |-> TRUE, items |-> [i \in 1..n |-> <<"option", i>>]]
Num(n) == [tag |-> "number", n |-> n]
Bool(b) == [tag |-> "boolean", n |-> IF b THEN 1 ELSE 0]
Null == [tag |-> "null", n |-> 0]

(* i === activity.correctAnswer *)
StrictEquals(i, answer) == answer.tag = "number" /\ answer.n = i

(* the activities renderActivity() is applied to *)
Activities ==
    {[type |-> t, options |-> o, correctAnswer |-> a] :
        t \in ActivityTypes,
        o \in {NoOptions} \cup {Options(n) : n \in 0..MaxOptions},
        a \in {Null, Bool(TRUE), Bool(FALSE)} \cup {Num(n) : n \in -1..MaxOptions}}

(* the <ul> is absent *)
NoList == [present |-> FALSE, items |-> <<>>]

(* a renderActivity() that counts the options from 1 *)
renderActivity_FromOne(activity) ==
    [type |-> activity.type,
     list |-> IF activity.type = "multiple_choice" /\ activity.options.present
              THEN [present |-> TRUE,
                    items |-> [i \in 1..Len(activity.options.items) |->
                                 [option |-> activity.options.items[i],
                                  mark |-> StrictEquals(i, activity.correctAnswer)]]]
              ELSE NoList]

(* renderActivity(): the type, and for a multiple-choice activity with       *)
(* options the <li> of each option with its mark; array indices start at 0   *)
renderActivity(activity) ==
    [type |-> activity.type,
     list |-> IF activity.type = "multiple_choice" /\ activity.options.present
              THEN [present |-> TRUE,
                    items |-> [i \in 1..Len(activity.options.items) |->
                                 [option |-> activity.options.items[i],
                                  mark |-> StrictEquals(i - 1, activity.correctAnswer)]]]
              ELSE NoList]

PureInputs ==
    {Input("renderSections", ss) : ss \in SectionLists}
    \cup {Input("renderActivity", a) : a \in Activities}
    \cup {Input("applyFilters", [courses |-> l, typed |-> q, filterValue |-> k]) :
            l \in CourseLists, q \in TypedQueries, k \in SortKeys}

PureInit ==
    /\ EditorInit
    /\ PageInit
    /\ calc \in PureInputs

ApplyRenderSections ==
    /\ calc.kind = "renderSections"
    /\ ~calc.done
    /\ calc' = [calc EXCEPT !.done = TRUE, !.output = renderSections(calc.input)]
    /\ UNCHANGED <<editorVars, pageVars>>

(* the `input` listener of #course-search, or the `change` listener of       *)
(* #filter-dropdown: the value is stored and applyFilters() runs             *)
ApplyFilters ==
    /\ calc.kind = "applyFilters"
    /\ ~calc.done
    /\ calc' = [calc EXCEPT !.done = TRUE,
                            !.output = applyFilters(calc.input.courses,
                                                    toLowerCase(calc.input.typed),
                                                    calc.input.filterValue)]
    /\ UNCHANGED <<editorVars, pageVars>>

ApplyRenderActivity ==
    /\ calc.kind = "renderActivity"
    /\ ~calc.done
    /\ calc' = [calc EXCEPT !.done = TRUE, !.output = renderActivity(calc.input)]
    /\ UNCHANGED <<editorVars, pageVars>>

PureNext ==
    \/ ApplyRenderSections
    \/ ApplyRenderActivity
    \/ ApplyFilters

PureSpec == PureInit /\ [][PureNext]_vars

-----------------------------------------------------------------------------
(* CourseManager: the course list, the create form, the detail view *)

(* the elements of class "view": the three top-level views of the page *)
Views == {"courses-view", "create-view", "course-detail-view"}
IdsOfCourses(list) == [i \in 1..Len(list) |-> list[i].id]
PageEvent(n, a) == [name |-> n, arg |-> a]

(* renderCourses(): the container of the current view mode shows the filtered *)
(* courses, or the empty state when there are none                           *)
renderCourses(filtered) ==
    IF filtered = <<>> THEN [state |-> "empty", ids |-> <<>>]
    ELSE [state |-> "cards", ids |-> IdsOfCourses(filtered)]

(* the course buttons the user can click: those of the displayed container, *)
(* while the course list view is the active one                             *)
ClickableCourses ==
    IF "courses-view" \in activeViews
    THEN {listView.ids[i] : i \in 1..Len(listView.ids)}
    ELSE {}

(* a name for a new call or a new CourseEditor: the least one not in use *)
NamesInUse ==
    {c.n : c \in calls} \cup {h.editor : h \in detail.handlers} \cup {detail.editor}

NewName ==
    CHOOSE n \in 1..(Cardinality(calls) + Cardinality(detail.handlers) + 2) :
        /\ n \notin NamesInUse
        /\ \A m \in 1..(n - 1) : m \in NamesInUse

(* loadCourses() up to its await: both containers show the loading text and *)
(* api.getCourses() is in flight                                             *)
loadCourses_Start(cs, n) == cs \cup {Call(n, "getCourses", "none")}

(* a switchView that adds "active" to its view and removes it from none *)
switchView_OnlyAdds(view) == activeViews \cup {view \o "-view"}

(* switchView(view): classList.toggle('active', v.id === `${view}-view`) on *)
(* every element of class "view"                                            *)
switchView(view) ==
    (activeViews \ Views) \cup {v \in Views : v = view \o "-view"}

detailFrame == UNCHANGED <<detail, lastSelected>>
listFrame == UNCHANGED <<courses, filteredCourses, searchQuery, filterValue, viewMode>>

(* the backend answers GET /courses with the courses it stores *)
ServeGetCourses(c) ==
    /\ c \in calls /\ c.kind = "getCourses" /\ c.phase = "sent"
    /\ calls' = (calls \ {c}) \cup {[c EXCEPT !.phase = "answered", !.data = courseDb]}
    /\ pageEvent' = NoPageEvent
    /\ listFrame /\ detailFrame
    /\ UNCHANGED <<courseDb, activeViews, listView, timers, pageOps>>
    /\ UNCHANGED <<editorVars, calc>>

(* loadCourses() after its await that assigns the courses and leaves the *)
(* filtered list as it was                                                 *)
loadCourses_Ok_NoFilter(c) ==
    /\ c \in calls /\ c.kind = "getCourses" /\ c.phase = "answered"
    /\ courses' = c.data
    /\ listView' = renderCourses(filteredCourses)
    /\ calls' = calls \ {c}
    /\ pageEvent' = NoPageEvent
    /\ detailFrame
    /\ UNCHANGED <<filteredCourses, searchQuery, filterValue, viewMode>>
    /\ UNCHANGED <<courseDb, activeViews, timers, pageOps>>
    /\ UNCHANGED <<editorVars, calc>>

(* loadCourses() after its await, the response arrived: this.courses is the *)
(* response, then applyFilters() filters, sorts and renders                  *)
loadCourses_Ok(c) ==
    /\ c \in calls /\ c.kind = "getCourses" /\ c.phase = "answered"
    /\ courses' = c.data
    /\ filteredCourses' = applyFilters(c.data, searchQuery, filterValue)
    /\ listView' = renderCourses(filteredCourses')
    /\ calls' = calls \ {c}
    /\ pageEvent' = NoPageEvent
    /\ detailFrame
    /\ UNCHANGED <<searchQuery, filterValue, viewMode>>
    /\ UNCHANGED <<courseDb, activeViews, timers, pageOps>>
    /\ UNCHANGED <<editorVars, calc>>

(* loadCourses(), the request failed: the catch block shows the error text *)
(* in both containers                                                        *)
loadCourses_Failed(c) ==
    /\ c \in calls /\ c.kind = "getCourses"
    /\ listView' = [state |-> "error", ids |-> <<>>]
    /\ calls' = calls \ {c}
    /\ pageEvent' = NoPageEvent
    /\ listFrame /\ detailFrame
    /\ UNCHANGED <<courseDb, activeViews, timers, pageOps>>
    /\ UNCHANGED <<editorVars, calc>>

(* click on #grid-view-btn or #table-view-btn: setViewMode(mode) *)
setViewMode(mode) ==
    /\ viewMode' = mode
    /\ listView' = renderCourses(filteredCourses)
    /\ pageEvent' = NoPageEvent
    /\ detailFrame
    /\ UNCHANGED <<courses, filteredCourses, searchQuery, filterValue>>
    /\ UNCHANGED <<courseDb, activeViews, calls, timers, pageOps>>
    /\ UNCHANGED <<editorVars, calc>>

(* input on #course-search: the lower-cased text is the query, applyFilters() *)
SearchInput(typed) ==
    /\ searchQuery' = toLowerCase(typed)
    /\ filteredCourses' = applyFilters(courses, searchQuery', filterValue)
    /\ listView' = renderCourses(filteredCourses')
    /\ pageEvent' = NoPageEvent
    /\ detailFrame
    /\ UNCHANGED <<courses, filterValue, viewMode>>
    /\ UNCHANGED <<courseDb, activeViews, calls, timers, pageOps>>
    /\ UNCHANGED <<editorVars, calc>>

(* change on #filter-dropdown: the value is the sort key, applyFilters() *)
FilterChange(key) ==
    /\ filterValue' = key
    /\ filteredCourses' = applyFilters(courses, searchQuery, key)
    /\ listView' = renderCourses(filteredCourses')
    /\ pageEvent' = NoPageEvent
    /\ detailFrame
    /\ UNCHANGED <<courses, searchQuery, viewMode>>
    /\ UNCHANGED <<courseDb, activeViews, calls, timers, pageOps>>
    /\ UNCHANGED <<editorVars, calc>>

(* click on #create-course-btn: switchView('create') *)
ClickCreateCourse ==
    /\ activeViews' = switchView("create")
    /\ pageEvent' = NoPageEvent
    /\ listFrame /\ detailFrame
    /\ UNCHANGED <<courseDb, listView, calls, timers, pageOps>>
    /\ UNCHANGED <<editorVars, calc>>

(* click on #cancel-create (in the create view) or #back-to-courses (in the *)
(* detail view): switchView('courses'), which also reloads the list         *)
ClickBackToCourses ==
    /\ pageOps < MaxPageOps
    /\ activeViews \cap {"create-view", "course-detail-view"} # {}
    /\ pageOps' = pageOps + 1
    /\ activeViews' = switchView("courses")
    /\ listView' = Loading
    /\ calls' = loadCourses_Start(calls, NewName)
    /\ pageEvent' = NoPageEvent
    /\ listFrame /\ detailFrame
    /\ UNCHANGED <<courseDb, timers>>
    /\ UNCHANGED <<editorVars, calc>>

(* submit of #course-form: handleCreateCourse() up to its await *)
handleCreateCourse(input) ==
    /\ pageOps < MaxPageOps
    /\ "create-view" \in activeViews
    /\ pageOps' = pageOps + 1
    /\ calls' = calls \cup {Call(NewName, "createCourse", input.id)}
    /\ pageEvent' = NoPageEvent
    /\ listFrame /\ detailFrame
    /\ UNCHANGED <<courseDb, activeViews, listView, timers>>
    /\ UNCHANGED <<editorVars, calc>>

(* the backend stores a course whose id it does not hold yet *)
Creatable(c) == \A i \in 1..Len(courseDb) : courseDb[i].id # c.arg

(* handleCreateCourse() after its await that never schedules the switch *)
handleCreateCourse_Ok_Stays(c) ==
    /\ c \in calls /\ c.kind = "createCourse" /\ Creatable(c)
    /\ courseDb' = Append(courseDb, CourseOf(c.arg))
    /\ calls' = calls \ {c}
    /\ pageEvent' = PageEvent("created", "ok")
    /\ listFrame /\ detailFrame
    /\ UNCHANGED <<activeViews, listView, timers, pageOps>>
    /\ UNCHANGED <<editorVars, calc>>

(* handleCreateCourse() after its await, the course was created: the form *)
(* is reset and switchView('courses') is scheduled 1500 ms ahead           *)
handleCreateCourse_Ok(c) ==
    /\ c \in calls /\ c.kind = "createCourse" /\ Creatable(c)
    /\ courseDb' = Append(courseDb, CourseOf(c.arg))
    /\ timers' = timers + 1
    /\ calls' = calls \ {c}
    /\ pageEvent' = PageEvent("created", "ok")
    /\ listFrame /\ detailFrame
    /\ UNCHANGED <<activeViews, listView, pageOps>>
    /\ UNCHANGED <<editorVars, calc>>

(* handleCreateCourse(), the request failed: the catch block shows the *)
(* error message and logs                                                *)
handleCreateCourse_Failed(c) ==
    /\ c \in calls /\ c.kind = "createCourse"
    /\ calls' = calls \ {c}
    /\ pageEvent' = PageEvent("created", "failed")
    /\ listFrame /\ detailFrame
    /\ UNCHANGED <<courseDb, activeViews, listView, timers, pageOps>>
    /\ UNCHANGED <<editorVars, calc>>

(* the timer of handleCreateCourse() fires: switchView('courses') *)
TimerFires ==
    /\ timers > 0
    /\ timers' = timers - 1
    /\ activeViews' = switchView("courses")
    /\ listView' = Loading
    /\ calls' = loadCourses_Start(calls, NewName)
    /\ pageEvent' = PageEvent("timer", IF "course-detail-view" \in activeViews
                                        THEN "over-detail" ELSE "courses")
    /\ listFrame /\ detailFrame
    /\ UNCHANGED <<courseDb, pageOps>>
    /\ UNCHANGED <<editorVars, calc>>

(* click on a course button: showCourseDetail(courseId) up to its await *)
showCourseDetail(id) ==
    /\ pageOps < MaxPageOps
    /\ id \in ClickableCourses
    /\ pageOps' = pageOps + 1
    /\ activeViews' = (activeViews \ Views) \cup {"course-detail-view"}
    /\ calls' = calls \cup {Call(NewName, "getCourse", id)}
    /\ lastSelected' = [id |-> id, call |-> NewName, state |-> "pending"]
    /\ pageEvent' = NoPageEvent
    /\ listFrame
    /\ UNCHANGED <<courseDb, listView, detail, timers>>
    /\ UNCHANGED <<editorVars, calc>>

(* history: the getCourse call of the last selection has ended *)
Ended_Selection(c, how) ==
    IF lastSelected.state = "pending" /\ lastSelected.call = c.n
    THEN [lastSelected EXCEPT !.state = how, !.call = 0]
    ELSE lastSelected

(* showCourseDetail() after its await, the course arrived: the content of  *)
(* #course-detail-content is replaced by the header and an empty           *)
(* #course-editor-container, this.courseEditor is a new CourseEditor on    *)
(* that container, and its loadCourse() is in flight                       *)
showCourseDetail_Ok(c) ==
    /\ c \in calls /\ c.kind = "getCourse"
    /\ detail' = [header |-> c.arg, editor |-> NewName, attached |-> TRUE,
                  filled |-> FALSE, handlers |-> {}]
    /\ calls' = (calls \ {c}) \cup {Call(NewName, "loadCourse", c.arg)}
    /\ lastSelected' = Ended_Selection(c, "ok")
    /\ pageEvent' = NoPageEvent
    /\ listFrame
    /\ UNCHANGED <<courseDb, activeViews, listView, timers, pageOps>>
    /\ UNCHANGED <<editorVars, calc>>

(* showCourseDetail(), the request failed: the content is replaced by the *)
(* error text; this.courseEditor stays, its container is gone             *)
showCourseDetail_Failed(c) ==
    /\ c \in calls /\ c.kind = "getCourse"
    /\ detail' = [detail EXCEPT !.header = "error", !.attached = FALSE,
                                !.filled = FALSE, !.handlers = {}]
    /\ calls' = calls \ {c}
    /\ lastSelected' = Ended_Selection(c, "failed")
    /\ pageEvent' = NoPageEvent
    /\ listFrame
    /\ UNCHANGED <<courseDb, activeViews, listView, timers, pageOps>>
    /\ UNCHANGED <<editorVars, calc>>

(* attachEventListeners() of a CourseEditor: document.getElementById and   *)
(* document.querySelectorAll find the editor buttons that are in the       *)
(* document, and the editor's handlers are added to them                   *)
attachEventListeners(editor, d) ==
    IF editor.editor = d.editor /\ d.attached THEN {editor}
    ELSE IF d.filled THEN d.handlers \cup {editor}
    ELSE d.handlers

(* loadCourse() of a CourseEditor ends (loadSections() catches a failure): *)
(* render() fills the editor's container, attachEventListeners() binds     *)
editorLoaded(c) ==
    /\ c \in calls /\ c.kind = "loadCourse"
    /\ detail' = [detail EXCEPT
                    !.filled = @ \/ (c.n = detail.editor /\ detail.attached),
                    !.handlers = attachEventListeners(
                                    [editor |-> c.n, course |-> c.arg], detail)]
    /\ calls' = calls \ {c}
    /\ pageEvent' = NoPageEvent
    /\ listFrame
    /\ UNCHANGED <<courseDb, activeViews, listView, timers, pageOps, lastSelected>>
    /\ UNCHANGED <<editorVars, calc>>

PageNext ==
    \/ \E c \in calls : ServeGetCourses(c)
    \/ \E c \in calls : loadCourses_Ok(c)
    \/ \E c \in calls : loadCourses_Failed(c)
    \/ \E mode \in {"grid", "table"} : setViewMode(mode)
    \/ \E typed \in PageQueries : SearchInput(typed)
    \/ \E key \in PageSortKeys : FilterChange(key)
    \/ ClickCreateCourse
    \/ ClickBackToCourses
    \/ \E input \in NewCourses : handleCreateCourse(input)
    \/ \E c \in calls : handleCreateCourse_Ok(c)
    \/ \E c \in calls : handleCreateCourse_Failed(c)
    \/ TimerFires
    \/ \E id \in {k.id : k \in Catalogue} : showCourseDetail(id)
    \/ \E c \in calls : showCourseDetail_Ok(c)
    \/ \E c \in calls : showCourseDetail_Failed(c)
    \/ \E c \in calls : editorLoaded(c)

PageSpec == Init /\ [][PageNext]_vars

(* a timer that was set fires: the browser runs every scheduled callback *)
PageFair == PageSpec /\ WF_vars(TimerFires)

-----------------------------------------------------------------------------
(* What the properties below speak of *)

Range(s) == {s[i] : i \in 1..Len(s)}

(* the section list shows section s, or an activity that belongs to it *)
Shows(cards, s) ==
    \/ s \in IdsOf(cards)
    \/ \E i \in 1..Len(cards) : \E a \in Range(cards[i].activities) : a.sectionId = s

(* the handler with id tid is no longer running after the step *)
Ended(tid) == \A u \in tasks' : u.tid # tid

OpenForms == (IF sectionForm.display = "block" THEN 1 ELSE 0) + Len(modals)

-----------------------------------------------------------------------------
(* C1, as claimed: once deleteSection(s) has had its DELETE succeed and its  *)
(* reload complete, no later render of the editor shows section s or an      *)
(* activity of s, whatever other operations and reload answers interleave.   *)
(* (Stated for the sections the backend no longer stores.)                   *)
(* Violated: the answer of a reload sent before the DELETE was carried out   *)
(* can be delivered after the reload of the deletion and puts s back.        *)
C1_DeletedNeverShownAgain ==
    \A s \in deleted : s \notin IdsOf(db) => ~Shows(listDom, s)

(* C1, amended: the render that completes deleteSection(s) (after its DELETE *)
(* succeeded and its own reload returned) shows neither s nor an activity of *)
(* s, for every s whose id the editor has not generated a second time.       *)
C1_DeleteRenderOmitsSection ==
    [][\A t \in tasks :
          (t.kind = "deleteSection" /\ t.phase = "loaded" /\ t.arg \notin collided)
              => ~Shows(listDom', t.arg)]_vars

(* a deletion has been rendered: the section is gone from the list *)
C1_Witness ==
    \E s \in deleted : /\ lastEvent = Event("deleteSection", s, TRUE)
                       /\ s \notin collided
                       /\ ~Shows(listDom, s)
                       /\ s \notin IdsOf(db)

-----------------------------------------------------------------------------
(* C2, as claimed: after every mutating operation the list is refetched and  *)
(* replaces the snapshot, so that the editor never keeps rendering a         *)
(* pre-mutation snapshot: when no request is pending, a non-empty snapshot   *)
(* holds the sections the backend stores for the course.                     *)
(* Violated: reload answers delivered out of order leave an older list.      *)
C2_NeverKeepsOldSnapshot ==
    (tasks = {} /\ sections # <<>>)
        => Range(sections) = Range(SectionsOfCourse(db, courseId))

(* C2, amended: when the request of saveSection, saveActivity or             *)
(* deleteSection is answered ok, the handler sends a GET of the sections of  *)
(* the editor's course; and when that GET has ended, the next step of the    *)
(* editor is the render of the list it returned (of the empty list when it   *)
(* failed).  Nothing orders the answers of different reloads.                *)
C2_MutationReloadsThenRenders ==
    [][/\ \A t \in tasks :
             (t.phase = "answered" /\ t \notin tasks')
                 => \E u \in tasks' : /\ u.tid = t.tid
                                      /\ u.phase = "reloadSent"
                                      /\ u.method = "GET"
                                      /\ u.course = courseId
       /\ \A t \in tasks :
             t.phase = "loaded"
                 => /\ Ended(t.tid)
                    /\ rendered'
                    /\ listDom' = renderSections(IF t.resp = "ok" THEN t.data ELSE <<>>)
      ]_vars

(* saveSection has created a section, reloaded and rendered it *)
C2_Witness ==
    /\ lastEvent = Event("saveSection", NoId, TRUE)
    /\ Len(listDom) = 2
    /\ IdsOf(listDom) = IdsOf(SectionsOfCourse(db, courseId))

-----------------------------------------------------------------------------
(* C3: when saving an activity fails (transport failure or non-success       *)
(* status) the activity modal stays open with what was entered, as the       *)
(* section form does.                                                        *)
(* Violated: the submit handler removes the modal after saveActivity()       *)
(* whatever the outcome.                                                     *)
C3_FailedActivitySaveKeepsModal ==
    [][\A t \in tasks :
          (t.kind = "saveActivity" /\ t.phase = "sent" /\ Ended(t.tid))
              => modals' = modals]_vars

-----------------------------------------------------------------------------
-----------------------------------------------------------------------------
(* C5: the editor never has nested modals: in every reachable state at most  *)
(* one form (the section form or one activity form) is open.                 *)
(* Violated: no handler checks for an open form; with the section form open  *)
(* the "Add Activity" button of a card opens an activity form as well.       *)
C5_AtMostOneFormOpen == OpenForms <= 1

-----------------------------------------------------------------------------
(* C6, as claimed: the id generated for a section created without an id is   *)
(* non-empty and differs from the id of every section rendered, for any      *)
(* sequence of creations.                                                    *)
(* Violated: two creations that read the same Date.now() get the same id,    *)
(* and the first one may be rendered by then.                                *)
C6_GeneratedIdNotRendered ==
    [][\A u \in tasks' \ tasks :
          (u.kind = "saveSection" /\ u.method = "POST" /\ u.phase = "sent")
              => /\ u.body.id # NoId
                 /\ u.body.id \notin IdsOf(listDom)]_vars

(* C6, amended: the generated id is non-empty, it is "section-" followed by  *)
(* the clock reading, and it differs from the id of every rendered section   *)
(* except one the editor generated from the same clock reading.              *)
C6_GeneratedIdFromClock ==
    [][\A u \in tasks' \ tasks :
          (u.kind = "saveSection" /\ u.method = "POST" /\ u.phase = "sent")
              => /\ u.body.id # NoId
                 /\ u.body.id = <<"section-", now>>
                 /\ \A r \in IdsOf(listDom) :
                       r = u.body.id => [id |-> r, at |-> now] \in generated]_vars

(* a created section is rendered, and a later creation is in flight with an  *)
(* id generated from a later clock reading                                   *)
C6_Witness ==
    \E u \in tasks :
        /\ u.kind = "saveSection" /\ u.method = "POST" /\ u.phase = "sent"
        /\ u.body.id \notin IdsOf(listDom)
        /\ \E g \in generated : g.id \in IdsOf(listDom) /\ g.id # u.body.id

-----------------------------------------------------------------------------
(* C7: loadSections() never raises to its caller, which goes on to render:   *)
(* on a transport failure or a non-success status the snapshot becomes the   *)
(* empty list, on success it becomes the returned list (the empty list when  *)
(* the body is not an array); an empty snapshot renders as "no sections".    *)
C7_LoadSectionsNeverRaises ==
    [][/\ \A t \in tasks :
             (t.phase = "reloadAnswered" /\ t \notin tasks')
                 => \E u \in tasks' :
                       /\ u.tid = t.tid
                       /\ u.phase = "loaded"
                       /\ u.resp \in GetOutcomes
                       /\ sections' = IF u.resp = "ok" THEN t.data ELSE <<>>
       /\ \A t \in tasks :
             (t.phase = "loaded" /\ sections = <<>>) => listDom' = <<>>
      ]_vars

(* a reload has failed while sections were shown: the snapshot is empty and  *)
(* the caller is about to render                                             *)
C7_Witness ==
    \E t \in tasks : /\ t.phase = "loaded"
                     /\ t.resp \in {"status", "error"}
                     /\ t.data # <<>>
                     /\ sections = <<>>
                     /\ listDom # <<>>

-----------------------------------------------------------------------------
(* C8: a submit of the section form issues exactly one request: with an id   *)
(* in the form a PUT to /api/sections/{id} whose body id is that id,         *)
(* otherwise a POST to /api/sections with a generated id; the body's         *)
(* courseId is the editor's courseId.                                        *)
C8_SaveSectionRequestByMode ==
    [][/\ lastEvent' = Event("submitSection", sectionForm.id, TRUE)
             => \E u \in tasks' \ tasks : u.kind = "saveSection" /\ u.phase = "sent"
       /\ \A u \in tasks' \ tasks :
             (u.kind = "saveSection" /\ u.phase = "sent")
                 => /\ tasks' = tasks \cup {u}
                    /\ u.resource = "sections"
                    /\ u.body.courseId = courseId
                    /\ IF sectionForm.id # NoId
                       THEN /\ u.method = "PUT"
                            /\ u.target = sectionForm.id
                            /\ u.body.id = sectionForm.id
                       ELSE /\ u.method = "POST"
                            /\ u.target = NoId
                            /\ u.body.id = MkSectionId(now)
      ]_vars

(* an update and a create have both been submitted *)
C8_Witness ==
    \E u, v \in tasks :
        /\ u.kind = "saveSection" /\ u.method = "PUT" /\ u.body.id = u.target
        /\ v.kind = "saveSection" /\ v.method = "POST" /\ v.body.id = MkSectionId(now)
        /\ u.body.courseId = courseId /\ v.body.courseId = courseId

-----------------------------------------------------------------------------
(* no handler ends in the step *)
NoHandlerEnds == \A t \in tasks : ~Ended(t.tid) /\ t.phase # "loaded"

(* the step hides the section form or removes an activity form, and is not   *)
(* the end of a handler: the click on a cancel button                        *)
CancelStep ==
    /\ NoHandlerEnds
    /\ \/ sectionForm.display = "block" /\ sectionForm'.display = "none"
       \/ Len(modals') < Len(modals)

-----------------------------------------------------------------------------
(* C10: a DELETE of a section is sent only when the user confirmed the       *)
(* prompt for that section; when the prompt is declined no request is sent   *)
(* and the snapshot is unchanged.                                            *)
C10_DeleteOnlyAfterConfirm ==
    [][/\ \A u \in tasks' \ tasks :
             (u.method = "DELETE" /\ u.phase = "sent")
                 => /\ lastEvent' = Event("deleteClick", u.target, TRUE)
                    /\ u.target \in IdsOf(listDom)
       /\ \A i \in 1..Len(listDom) :
             lastEvent' = Event("deleteClick", listDom[i].id, FALSE)
                 => tasks' = tasks /\ sections' = sections /\ db' = db
      ]_vars

(* the prompt has just been declined: nothing is pending *)
C10_Witness ==
    /\ lastEvent.name = "deleteClick"
    /\ ~lastEvent.ok
    /\ lastEvent.id \in IdsOf(listDom)
    /\ tasks = {}

-----------------------------------------------------------------------------
(* no request is pending and the snapshot is a non-empty list that is not    *)
(* the list the backend stores for the course                                *)
StaleAtRest ==
    /\ tasks = {}
    /\ sections # <<>>
    /\ Range(sections) # Range(SectionsOfCourse(db, courseId))

(* C16: mutating operations are not serialized, so the answers of reloads    *)
(* can arrive out of order: the answer of a reload sent earlier overwrites   *)
(* the snapshot set by a reload sent later and leaves a list older than one  *)
(* the editor has displayed (see C16_Witness, which is reached).  It is the  *)
(* only way to a stale snapshot at rest: then the snapshot was set by a      *)
(* reload that was not the last one sent.                                    *)
C16_StaleOnlyByEarlierReload == StaleAtRest => shownSeq < reloads

(* the editor has rendered the list without a deleted section, and now,      *)
(* nothing pending, holds and shows the section again: the answer of a       *)
(* reload sent before the last one was delivered last                        *)
C16_Witness ==
    /\ tasks = {}
    /\ shownSeq < reloads
    /\ \E s \in deleted : /\ s \notin IdsOf(db)
                          /\ s \in IdsOf(sections)
                          /\ s \in IdsOf(listDom)

-----------------------------------------------------------------------------
(* C18: "Add Section" opens the form in create mode with order pre-filled    *)
(* with the number of sections in memory plus one; after creations and the   *)
(* deletion of a section that is not the last, that default is the order of  *)
(* an existing section (see C18_Witness, which is reached).                  *)
C18_CreateDefaultsToCountPlusOne ==
    [][lastEvent' = Event("addSection", NoId, TRUE)
          => sectionForm' = [display |-> "block", id |-> NoId,
                             order |-> Len(sections) + 1]]_vars

(* a section was created after the stored one, the stored one (the first of  *)
(* the two) was deleted, and the form now proposes the order of the section  *)
(* that is left                                                              *)
C18_Witness ==
    /\ lastEvent = Event("addSection", NoId, TRUE)
    /\ tasks = {}
    /\ SeedSections[1].id \in deleted
    /\ sectionForm.id = NoId
    /\ sectionForm.order = Len(sections) + 1
    /\ \E i \in 1..Len(sections) :
          /\ sections[i].order = sectionForm.order
          /\ sections[i].id \in {g.id : g \in generated}

-----------------------------------------------------------------------------
(* C12: renderSections() emits one card per section, in ascending order of   *)
(* the sections' `order`, whatever the order of the array.                   *)
C12_SectionsRenderedAscending ==
    (calc.kind = "renderSections" /\ calc.done)
        => LET out == calc.output
               in == calc.input
           IN /\ Len(out) = Len(in)
              /\ \A i, j \in 1..Len(out) : i < j => out[i].order <= out[j].order
              /\ \A k \in 1..Len(in) :
                    \E i \in 1..Len(out) : out[i].id = in[k].id /\ out[i].order = in[k].order

(* sections of order 2 and 1, in that array order, are rendered 1 then 2 *)
C12_Witness ==
    /\ calc.kind = "renderSections" /\ calc.done
    /\ Len(calc.input) = 2
    /\ calc.input[1].order = 2 /\ calc.input[2].order = 1
    /\ calc.output[1].order = 1 /\ calc.output[2].order = 2
    /\ calc.output[1].id = calc.input[2].id

-----------------------------------------------------------------------------
(* C13: for every course list, the view applyFilters() produces with sort    *)
(* key "name" is non-decreasing in title under localeCompare, and the view   *)
(* produced with "recent" is non-increasing in createdAt, a missing          *)
(* createdAt counting as 0.                                                  *)
C13_NameAndRecentViewsSorted ==
    (calc.kind = "applyFilters" /\ calc.done)
        => LET out == calc.output IN
           /\ calc.input.filterValue = "name"
                 => \A i, j \in 1..Len(out) :
                       i < j => localeCompare(out[i].title, out[j].title) <= 0
           /\ calc.input.filterValue = "recent"
                 => \A i, j \in 1..Len(out) :
                       i < j => (IF out[i].createdAt = NoDate THEN 0
                                 ELSE out[i].createdAt[2] * DayMs)
                                >= (IF out[j].createdAt = NoDate THEN 0
                                    ELSE out[j].createdAt[2] * DayMs)
           /\ {out[i] : i \in 1..Len(out)}
                 = {c \in {calc.input.courses[i] : i \in 1..Len(calc.input.courses)} :
                       Matches(c, toLowerCase(calc.input.typed))}

(* three courses out of order, one without createdAt and one from before     *)
(* 1970, sorted by "recent": the dated one, the undated one, the old one     *)
C13_Witness ==
    /\ calc.kind = "applyFilters" /\ calc.done
    /\ calc.input.filterValue = "recent"
    /\ calc.input.typed = <<>>
    /\ [i \in 1..Len(calc.input.courses) |-> calc.input.courses[i].id] = <<"k3", "k2", "k1">>
    /\ [i \in 1..Len(calc.output) |-> calc.output[i].id] = <<"k1", "k2", "k3">>

-----------------------------------------------------------------------------
(* C14: search filtering is idempotent: for every course list and query,     *)
(* filtering the filtered list again with the same query returns the same    *)
(* list; every course kept matches the query in its title, category or short *)
(* description, case-insensitively.                                          *)
C14_SearchFilterIdempotent ==
    (calc.kind = "applyFilters" /\ calc.done)
        => LET search == toLowerCase(calc.input.typed)
               once == SearchFilter(calc.input.courses, search)
           IN /\ SearchFilter(once, search) = once
              /\ SearchFilter(calc.output, search) = calc.output
              /\ applyFilters(calc.output, search, calc.input.filterValue) = calc.output
              /\ \A i \in 1..Len(calc.output) :
                    search # <<>> =>
                       \/ includes(toLowerCase(calc.output[i].title), search)
                       \/ includes(toLowerCase(calc.output[i].category), search)
                       \/ includes(toLowerCase(calc.output[i].shortDescription), search)

(* the query "B" has kept the courses with a b in a field, upper or lower    *)
(* case, and has dropped another                                             *)
C14_Witness ==
    /\ calc.kind = "applyFilters" /\ calc.done
    /\ calc.input.typed = <<"B">>
    /\ Len(calc.input.courses) = 3
    /\ Len(calc.output) = 2
    /\ \E i \in 1..3 : calc.input.courses[i].id = "k1"
    /\ \E i \in 1..3 : calc.input.courses[i].id = "k3"
    /\ \E i \in 1..2 : calc.output[i].id = "k1"
    /\ \A i \in 1..2 : calc.output[i].id # "k3"

-----------------------------------------------------------------------------
(* C15: rendering a multiple-choice activity with options marks exactly one  *)
(* option, the one whose index is correctAnswer, when correctAnswer is an    *)
(* integer index of the options, and marks none when correctAnswer is out of *)
(* range or absent.                                                          *)
C15_MarksTheCorrectOption ==
    (/\ calc.kind = "renderActivity" /\ calc.done
     /\ calc.input.type = "multiple_choice"
     /\ calc.input.options.present)
        => LET n == Len(calc.input.options.items)
               answer == calc.input.correctAnswer
               marked == {i \in 0..(n - 1) : calc.output.list.items[i + 1].mark}
           IN /\ calc.output.list.present
              /\ Len(calc.output.list.items) = n
              /\ IF answer.tag = "number" /\ answer.n \in 0..(n - 1)
                 THEN marked = {answer.n}
                 ELSE marked = {}

(* three options with correctAnswer 2: the last one alone is marked *)
C15_Witness ==
    /\ calc.kind = "renderActivity" /\ calc.done
    /\ calc.input.type = "multiple_choice"
    /\ calc.input.options = Options(3)
    /\ calc.input.correctAnswer = Num(2)
    /\ calc.output.list.items[3].mark
    /\ ~calc.output.list.items[1].mark /\ ~calc.output.list.items[2].mark

-----------------------------------------------------------------------------
(* C19: between handlers, filteredCourses is exactly courses filtered by    *)
(* searchQuery and sorted by filterValue, and every filtered course is one  *)
(* of courses: after any loads (answered or failed), searches, sort changes *)
(* and view-mode toggles.                                                   *)
C19_FilteredIsViewOfCourses ==
    /\ filteredCourses = applyFilters(courses, searchQuery, filterValue)
    /\ \A i \in 1..Len(filteredCourses) : filteredCourses[i] \in Range(courses)

(* a search that hides loaded courses, in table mode sorted by name, after *)
(* a creation was loaded and a later load failed                            *)
C19_Witness ==
    /\ Len(courses) = 3
    /\ searchQuery # <<>>
    /\ filteredCourses # <<>>
    /\ Len(filteredCourses) < Len(courses)
    /\ filterValue = "name"
    /\ viewMode = "table"
    /\ listView.state = "error"

-----------------------------------------------------------------------------
(* C11: after createCourse succeeded, the page eventually (when the timer   *)
(* set by the handler fires) makes the course list view the active one and  *)
(* starts a reload of the list; when createCourse failed, the step of the   *)
(* handler schedules no switch and leaves the active view as it is.         *)
CreatedOk == pageEvent = PageEvent("created", "ok")

SwitchedToList ==
    /\ pageEvent.name = "timer"
    /\ activeViews = {"courses-view"}
    /\ listView = Loading
    /\ \E c \in calls : c.kind = "getCourses" /\ c.phase = "sent"

C11_CreatedLeadsBackToList ==
    /\ CreatedOk ~> SwitchedToList
    /\ [][pageEvent' = PageEvent("created", "failed")
            => timers' = timers /\ activeViews' = activeViews]_vars

(* the timer of a creation fired and the list is being reloaded, while the *)
(* backend holds the created course                                         *)
C11_Witness ==
    /\ pageEvent.name = "timer"
    /\ Len(courseDb) = Len(SeedCourses) + 1
    /\ "courses-view" \in activeViews
    /\ timers = 0
    /\ calls # {}

-----------------------------------------------------------------------------
(* C20: once no getCourse and no loadCourse call is outstanding, and the    *)
(* getCourse of the last selection succeeded, the detail view shows the     *)
(* header (and with it the editor, made in the same step) of the course     *)
(* selected last, unless it shows the error text of an earlier selection.   *)
DetailAtRest == \A c \in calls : c.kind \notin {"getCourse", "loadCourse"}

C20_DetailShowsLastSelected ==
    (DetailAtRest /\ lastSelected.state = "ok" /\ detail.header # "error")
        => detail.header = lastSelected.id

-----------------------------------------------------------------------------
(* C17: every handler bound to the buttons of the editor in the document   *)
(* belongs to the CourseEditor created last (this.courseEditor).            *)
C17_HandlersOfLatestEditorOnly ==
    \A h \in detail.handlers : h.editor = detail.editor

-----------------------------------------------------------------------------
(* C21: at most one of the top-level views (courses, create, course detail) *)
(* has the class "active", after any view switches, detail openings and     *)
(* timer-driven switches, also one that fires while the detail view is open. *)
C21_AtMostOneActiveView == Cardinality(activeViews \cap Views) <= 1

(* the timer of a creation fired while the detail view of a course selected *)
(* in the meantime was the active one, and the course list took its place   *)
C21_Witness ==
    /\ pageEvent = PageEvent("timer", "over-detail")
    /\ lastSelected.state # "none"
    /\ activeViews = {"courses-view"}

=============================================================================
